---- MODULE Spec2Model ----
(***************************************************************************)
(* Model of golem-herder: the usage ledger (package metering, meter.go)    *)
(* and the container lifecycle orchestrator (package container).           *)
(*                                                                         *)
(* The ledger is a bolt store: db.Update runs its function in the single   *)
(* read-write transaction (bolt holds one writer lock), on a private copy  *)
(* of the store that is published when the function returns nil and        *)
(* dropped when it returns an error.  db.View reads the published store.   *)
(***************************************************************************)
EXTENDS Integers, Sequences, FiniteSets, TLC

----------------------------------------------------------------------------
(* Bounds *)

\* number of concurrent callers of the ledger
NumProcs == 2
\* largest debit a caller passes; the starting balances are built from it
MaxMs == 9
\* number of ledger calls in one behaviour
MaxCalls == 3

Procs == 1..NumProcs

\* identities handed to the ledger; "" is the name bolt refuses for a bucket
Ids == {"u1", ""}

\* starting balances given to NewMeter
InitialBalances == {0, MaxMs + 1}

\* amounts given to RecordMilliseconds (any int may be passed)
MsValues == {-1, MaxMs, MaxMs + 2}

----------------------------------------------------------------------------
(* strconv.Itoa / strconv.Atoi on decimal strings, a string being the       *)
(* sequence of its characters                                               *)

DigitChars == <<"0", "1", "2", "3", "4", "5", "6", "7", "8", "9">>

DigitSet == {DigitChars[i] : i \in 1..10}

DigitValue(c) == (CHOOSE i \in 1..10 : DigitChars[i] = c) - 1

RECURSIVE FormatUint(_)
FormatUint(n) ==
    IF n < 10 THEN <<DigitChars[n + 1]>>
    ELSE FormatUint(n \div 10) \o <<DigitChars[(n % 10) + 1]>>

Itoa(n) == IF n < 0 THEN <<"-">> \o FormatUint(-n) ELSE FormatUint(n)

RECURSIVE ParseUint(_)
ParseUint(s) ==
    IF Len(s) = 0 THEN 0
    ELSE 10 * ParseUint(SubSeq(s, 1, Len(s) - 1)) + DigitValue(s[Len(s)])

\* [val, err]: err is TRUE for anything that is not [+-]?[0-9]+
Atoi(s) ==
    LET signed == Len(s) > 0 /\ s[1] \in {"-", "+"}
        body   == IF signed THEN Tail(s) ELSE s
        ok     == Len(body) > 0 /\ \A i \in 1..Len(body) : body[i] \in DigitSet
    IN  IF ~ok THEN [val |-> 0, err |-> TRUE]
        ELSE [val |-> IF signed /\ s[1] = "-" THEN -ParseUint(body) ELSE ParseUint(body),
              err |-> FALSE]

----------------------------------------------------------------------------
(* Ledger state *)

VARIABLES
    db,         \* published store: bucket name -> (key -> string)
    rwlock,     \* holder of bolt's writer lock, 0 when free
    txn,        \* per caller: the private copy its read-write transaction works on
    mpc,        \* per caller: position in the ledger call it is running
    call,       \* per caller: the call it runs or ran last, [op, id, ms], and for a
                \* read the balance (granted - debited) the ledger owed when it ran
    remaining,  \* per caller: local variable remaining of RecordMilliseconds (0 outside it)
    used,       \* per caller: local variable used of RecordMilliseconds (0 outside it)
    ret,        \* per caller: what its last call returned, [val, err]
    granted,    \* per identity: the balance its bucket was created with
    debited,    \* per identity: sum of ms over the RecordMilliseconds calls that returned nil
    ncalls      \* ledger calls started so far

meterVars == <<db, rwlock, txn, mpc, call, remaining, used, ret, granted, debited, ncalls>>

----------------------------------------------------------------------------
(* Container runtime and orchestrator state *)

VARIABLES
    containers,   \* the runtime's containers: ID -> [Names, Labels, State]
    nextID,       \* the ID the runtime gives the next container it creates
    op,           \* the orchestration call in progress (or the last one) and its arguments
    pc,           \* position of the goroutine running that call
    container,    \* run: what CreateContainer returned (nil when it failed)
    containerID,  \* run: the ID resolved by create or by name lookup
    c,            \* the handle run returned to its caller
    err,          \* the error run returned to its caller
    result,       \* what the orchestration call returned, [c, err]
    target,       \* Kill: containers[0].ID of its listing, 0 before the listing
    calls,        \* runtime-client calls issued by the call in progress, with outcomes
    mon,          \* position of the monitor goroutine of RunDaemonized
    signals,      \* sends on the done channel that completed
    runs          \* orchestration calls started so far

containerVars == <<containers, nextID, op, pc, container, containerID, c, err, result,
                   target, calls, mon, signals, runs>>

----------------------------------------------------------------------------
(* Staging, cancellation and output streaming state *)

VARIABLES
    mounts,     \* the mounts map handed to run: host path -> in-container path
    binds,      \* run: the "source:destination" binds it built for CreateContainer
    todo,       \* LoadFiles: entries its range loop has not visited yet
    wg,         \* LoadFiles: counter of its sync.WaitGroup
    fetch,      \* per file name: position of the fetch goroutine started for it
    disk,       \* per file name: what the host directory holds under it
    staged,     \* what LoadFiles returned, "no" while it has not returned
    cancelled,  \* RunLambda: the caller's context is done
    captured,   \* RunLambda: it returned the two output buffers
    output,     \* per stream: number of bytes the container has written to it
    pipe,       \* per stream: the io.Pipe, [buf, closed]; buf is the unread part
                \* of the Write in progress
    pump,       \* per stream: position of the goroutine that forwards it
    data,       \* per stream: the pump's buffer and the error of its last Read
    got,        \* per stream: the bytes the pump's Reads returned, in order
    sent,       \* per stream: the chunks sent on the channel, concatenated
    cw,         \* Attach: the CloseWaiter of the attached connection
    inpump,     \* Attach: position of the goroutine that writes stdin
    received,   \* Attach: lines that goroutine has taken from the in channel
    stdinClosed \* Attach: the read end of the stdin pipe is closed

stagingVars == <<mounts, binds, todo, wg, fetch, disk, staged>>

lambdaVars == <<cancelled, captured>>

streamVars == <<output, pipe, pump, data, got, sent, cw>>

stdinVars == <<inpump, received, stdinClosed>>

auxVars == <<stagingVars, lambdaVars, streamVars, stdinVars>>

vars == <<meterVars, containerVars, auxVars>>

KeyRemaining == "MillisecondsRemaining"
KeyUsed == "MillisecondsUsed"

NoError == "nil"
ErrNoTimeLeft == "Could not record time - no time left"
\* a missing-entry error worded like the out-of-credit one
ErrNoBucketAsNoTimeLeft == "Could not record time - no time left"

ErrNoBucket == "Could not update for given id"
ErrGetRemaining == "Could not get time remaining"
ErrAtoi == "strconv.Atoi: invalid syntax"

\* tx.Bucket(name): nil unless the bucket exists
HasBucket(store, id) == id \in DOMAIN store

\* b.Get(key) as an int, for a bucket that holds the key
GetInt(store, id, key) == Atoi(store[id][key]).val

\* b.Put(key, value) on the bucket id of store
BucketPut(store, id, key, value) ==
    [store EXCEPT ![id] = (key :> value) @@ store[id]]

\* a bucket creation that also succeeds for a bucket that exists
CanCreateOrReplaceBucket(store, id) == id # ""

\* tx.CreateBucket(name): fails for an existing bucket and for the empty name
CanCreateBucket(store, id) == id # "" /\ ~HasBucket(store, id)


\* a floor check that lets a balance of exactly 0 through
NoTimeLeftStrict(r, ms) == r < 0

\* a floor check on the balance the debit would leave
NoTimeLeftAfter(r, ms) == r <= 0 \/ r - ms < 0

\* a store whose Update does not wait for the writer lock
WriterLockIgnored == TRUE

\* the writer lock db.Update takes before it runs its function
WriterLockFree == rwlock = 0

\* line 90, the floor check of RecordMilliseconds: the balance read, not ms
NoTimeLeft(r, ms) == r <= 0


MeterInit ==
    /\ db = <<>>
    /\ rwlock = 0
    /\ txn = [p \in Procs |-> <<>>]
    /\ mpc = [p \in Procs |-> "idle"]
    /\ call = [p \in Procs |-> [op |-> "none", id |-> "", ms |-> 0, bal |-> 0]]
    /\ remaining = [p \in Procs |-> 0]
    /\ used = [p \in Procs |-> 0]
    /\ ret = [p \in Procs |-> [val |-> 0, err |-> NoError]]
    /\ granted = [i \in Ids |-> 0]
    /\ debited = [i \in Ids |-> 0]
    /\ ncalls = 0

\* NewMeter(id, remainingMs): one read-write transaction that creates the
\* bucket with both keys when CreateBucket succeeds, and returns nil either way
NewMeter(p, id, r) ==
    /\ mpc[p] = "idle"
    /\ ncalls < MaxCalls
    /\ WriterLockFree
    /\ db' = IF CanCreateBucket(db, id)
             THEN (id :> ((KeyRemaining :> Itoa(r)) @@ (KeyUsed :> Itoa(0)))) @@ db
             ELSE db
    /\ granted' = IF CanCreateBucket(db, id) THEN [granted EXCEPT ![id] = r] ELSE granted
    /\ call' = [call EXCEPT ![p] = [op |-> "NewMeter", id |-> id, ms |-> r, bal |-> 0]]
    /\ ret' = [ret EXCEPT ![p] = [val |-> 0, err |-> NoError]]
    /\ ncalls' = ncalls + 1
    /\ UNCHANGED <<rwlock, txn, mpc, remaining, used, debited>>
    /\ UNCHANGED <<containerVars, auxVars>>

\* Meter.MillisecondsRemaining: a read transaction; the function given to
\* db.View ends in "return fmt.Errorf(...)" on every path, so the caller
\* always takes the "return 0, err" branch
MillisecondsRemainingResult(store, id) ==
    LET found == HasBucket(store, id) /\ KeyRemaining \in DOMAIN store[id]
        parsed == IF found THEN Atoi(store[id][KeyRemaining]) ELSE [val |-> 0, err |-> FALSE]
        viewErr == IF parsed.err THEN ErrAtoi ELSE ErrGetRemaining
    IN  IF viewErr # NoError THEN [val |-> 0, err |-> viewErr]
        ELSE [val |-> parsed.val, err |-> NoError]

MillisecondsRemaining(p, id) ==
    /\ mpc[p] = "idle"
    /\ ncalls < MaxCalls
    /\ call' = [call EXCEPT ![p] = [op |-> "MillisecondsRemaining", id |-> id, ms |-> 0,
                                    bal |-> granted[id] - debited[id]]]
    /\ ret' = [ret EXCEPT ![p] = MillisecondsRemainingResult(db, id)]
    /\ ncalls' = ncalls + 1
    /\ UNCHANGED <<db, rwlock, txn, mpc, remaining, used, granted, debited>>
    /\ UNCHANGED <<containerVars, auxVars>>

\* Meter.Inspect: the Status built from MillisecondsRemaining, or its error
Inspect(p, id) ==
    /\ mpc[p] = "idle"
    /\ ncalls < MaxCalls
    /\ call' = [call EXCEPT ![p] = [op |-> "Inspect", id |-> id, ms |-> 0,
                                    bal |-> granted[id] - debited[id]]]
    /\ ret' = [ret EXCEPT ![p] = MillisecondsRemainingResult(db, id)]
    /\ ncalls' = ncalls + 1
    /\ UNCHANGED <<db, rwlock, txn, mpc, remaining, used, granted, debited>>
    /\ UNCHANGED <<containerVars, auxVars>>

\* RecordMilliseconds(ms) is called on the Meter of id
RecordCall(p, id, ms) ==
    /\ mpc[p] = "idle"
    /\ ncalls < MaxCalls
    /\ call' = [call EXCEPT ![p] = [op |-> "RecordMilliseconds", id |-> id, ms |-> ms,
                                    bal |-> 0]]
    /\ remaining' = [remaining EXCEPT ![p] = 0]
    /\ used' = [used EXCEPT ![p] = 0]
    /\ ret' = [ret EXCEPT ![p] = [val |-> 0, err |-> NoError]]
    /\ mpc' = [mpc EXCEPT ![p] = "begin"]
    /\ ncalls' = ncalls + 1
    /\ UNCHANGED <<db, rwlock, txn, granted, debited>>
    /\ UNCHANGED <<containerVars, auxVars>>

\* db.Update: wait for the writer lock, open the read-write transaction
RecordBegin(p) ==
    /\ mpc[p] = "begin"
    /\ WriterLockFree
    /\ rwlock' = p
    /\ txn' = [txn EXCEPT ![p] = db]
    /\ mpc' = [mpc EXCEPT ![p] = "read"]
    /\ UNCHANGED <<db, call, remaining, used, ret, granted, debited, ncalls>>
    /\ UNCHANGED <<containerVars, auxVars>>

\* lines 77-102: find the bucket, read remaining, floor check, read used
RecordRead(p) ==
    /\ mpc[p] = "read"
    /\ LET id == call[p].id
           b == txn[p]
           hasRem == HasBucket(b, id) /\ KeyRemaining \in DOMAIN b[id]
           rem == IF hasRem THEN Atoi(b[id][KeyRemaining]) ELSE [val |-> 0, err |-> FALSE]
           hasUsed == HasBucket(b, id) /\ KeyUsed \in DOMAIN b[id]
           usd == IF hasUsed THEN Atoi(b[id][KeyUsed]) ELSE [val |-> 0, err |-> FALSE]
           fail == IF ~HasBucket(b, id) THEN ErrNoBucket
                   ELSE IF rem.err THEN ErrAtoi
                   ELSE IF NoTimeLeft(rem.val, call[p].ms) THEN ErrNoTimeLeft
                   ELSE IF usd.err THEN ErrAtoi
                   ELSE NoError
       IN  /\ remaining' = [remaining EXCEPT ![p] = IF HasBucket(b, id) THEN rem.val ELSE 0]
           /\ used' = [used EXCEPT ![p] = IF fail = NoError THEN usd.val ELSE 0]
           /\ ret' = [ret EXCEPT ![p] = [val |-> 0, err |-> fail]]
           /\ mpc' = [mpc EXCEPT ![p] = IF fail = NoError THEN "putRemaining" ELSE "end"]
    /\ UNCHANGED <<db, rwlock, txn, call, granted, debited, ncalls>>
    /\ UNCHANGED <<containerVars, auxVars>>

\* a Put that goes to the published store instead of the transaction's copy
RecordPutRemainingUnbuffered(p) ==
    /\ mpc[p] = "putRemaining"
    /\ db' = BucketPut(db, call[p].id, KeyRemaining, Itoa(remaining[p] - call[p].ms))
    /\ txn' = [txn EXCEPT ![p] =
                 BucketPut(txn[p], call[p].id, KeyRemaining, Itoa(remaining[p] - call[p].ms))]
    /\ mpc' = [mpc EXCEPT ![p] = "putUsed"]
    /\ UNCHANGED <<rwlock, call, remaining, used, ret, granted, debited, ncalls>>
    /\ UNCHANGED <<containerVars, auxVars>>

\* line 104: b.Put(MillisecondsRemaining, Itoa(remaining-ms)), inside the
\* transaction (Put fails only on a closed or read-only transaction or an
\* empty or oversized key, none of which this call can produce)
RecordPutRemaining(p) ==
    /\ mpc[p] = "putRemaining"
    /\ txn' = [txn EXCEPT ![p] =
                 BucketPut(txn[p], call[p].id, KeyRemaining, Itoa(remaining[p] - call[p].ms))]
    /\ mpc' = [mpc EXCEPT ![p] = "putUsed"]
    /\ UNCHANGED <<db, rwlock, call, remaining, used, ret, granted, debited, ncalls>>
    /\ UNCHANGED <<containerVars, auxVars>>

\* line 108: b.Put(MillisecondsUsed, Itoa(used+ms)), then return nil
RecordPutUsed(p) ==
    /\ mpc[p] = "putUsed"
    /\ txn' = [txn EXCEPT ![p] =
                 BucketPut(txn[p], call[p].id, KeyUsed, Itoa(used[p] + call[p].ms))]
    /\ mpc' = [mpc EXCEPT ![p] = "end"]
    /\ UNCHANGED <<db, rwlock, call, remaining, used, ret, granted, debited, ncalls>>
    /\ UNCHANGED <<containerVars, auxVars>>

\* db.Update returning: commit when the function returned nil, roll back
\* otherwise; the writer lock is released either way
RecordEnd(p) ==
    /\ mpc[p] = "end"
    /\ db' = IF ret[p].err = NoError THEN txn[p] ELSE db
    /\ debited' = IF ret[p].err = NoError
                  THEN [debited EXCEPT ![call[p].id] = @ + call[p].ms]
                  ELSE debited
    /\ rwlock' = 0
    /\ txn' = [txn EXCEPT ![p] = <<>>]
    /\ mpc' = [mpc EXCEPT ![p] = "idle"]
    /\ remaining' = [remaining EXCEPT ![p] = 0]
    /\ used' = [used EXCEPT ![p] = 0]
    /\ UNCHANGED <<call, ret, granted, ncalls>>
    /\ UNCHANGED <<containerVars, auxVars>>

MeterNext ==
    \/ \E p \in Procs, id \in Ids, r \in InitialBalances : NewMeter(p, id, r)
    \/ \E p \in Procs, id \in Ids : MillisecondsRemaining(p, id)
    \/ \E p \in Procs, id \in Ids : Inspect(p, id)
    \/ \E p \in Procs, id \in Ids, ms \in MsValues : RecordCall(p, id, ms)
    \/ \E p \in Procs : RecordBegin(p)
    \/ \E p \in Procs : RecordRead(p)
    \/ \E p \in Procs : RecordPutRemaining(p)
    \/ \E p \in Procs : RecordPutUsed(p)
    \/ \E p \in Procs : RecordEnd(p)

----------------------------------------------------------------------------
(* The container runtime as the orchestrator sees it *)

\* number of orchestration calls in one behaviour
MaxRuns == 2

\* number of file names an input set may use
MaxFiles == 2

\* number of bytes a container writes to one of its streams
MaxBytes == 3

\* length of the buffer a pump reads into, make([]byte, 512) scaled down
BufSize == 2

\* container and image names, a string being the sequence of its characters
NameWeb == <<"w", "e", "b">>
NameWeb2 == <<"w", "e", "b", "2">>
NameDb == <<"d", "b">>

\* the runtime lists a container's names with a leading slash
Slash(name) == <<"/">> \o name

LabelKey == "app"
LabelGolem == (LabelKey :> "golem")
NoLabels == <<>>

Descriptor(id, names, labels, state) ==
    [ID |-> id, Names |-> names, Labels |-> labels, State |-> state]

\* what the runtime may hold when the orchestrator starts
Populations ==
    { <<>>,
      (1 :> Descriptor(1, {Slash(NameWeb)}, LabelGolem, "running")),
      (1 :> Descriptor(1, {Slash(NameWeb)}, LabelGolem, "exited")),
      (1 :> Descriptor(1, {Slash(NameWeb2)}, NoLabels, "exited")),
      (1 :> Descriptor(1, {Slash(NameWeb)}, LabelGolem, "running"))
        @@ (2 :> Descriptor(2, {Slash(NameDb)}, LabelGolem, "running")) }

\* a *docker.Container handle; nil is the handle with isNil
Nil == [isNil |-> TRUE, ID |-> 0]
Handle(id) == [isNil |-> FALSE, ID |-> id]

Exists(id) == id \in DOMAIN containers

Without(id) == [x \in (DOMAIN containers) \ {id} |-> containers[x]]

WithState(id, state) == [containers EXCEPT ![id].State = state]

\* matcher functions, as the data they close over
WithID(id) == [kind |-> "WithID", id |-> id, name |-> <<>>, value |-> ""]
WithName(name) == [kind |-> "WithName", id |-> 0, name |-> name, value |-> ""]
WithLabel(label, value) == [kind |-> "WithLabel", id |-> 0, name |-> label, value |-> value]

\* a name matcher that accepts any listed name starting with "/"+name
MatchesByPrefix(m, d) ==
    CASE m.kind = "WithID" -> d.ID = m.id
      [] m.kind = "WithName" ->
             \E n \in d.Names :
                 Len(n) >= Len(m.name) + 1 /\ SubSeq(n, 1, Len(m.name) + 1) = Slash(m.name)
      [] m.kind = "WithLabel" -> m.name \in DOMAIN d.Labels /\ d.Labels[m.name] = m.value

\* the matcher applied to a listed container
Matches(m, d) ==
    CASE m.kind = "WithID" -> d.ID = m.id
      [] m.kind = "WithName" -> \E n \in d.Names : n = Slash(m.name)
      [] m.kind = "WithLabel" -> m.name \in DOMAIN d.Labels /\ d.Labels[m.name] = m.value

\* List: ListContainers(All: all) filtered by the matcher; without All the
\* runtime lists running containers only
List(matches, all) ==
    {id \in DOMAIN containers :
        (all \/ containers[id].State = "running") /\ Matches(matches, containers[id])}

\* a runtime-client call and how it ended
Issued(name, id, all, force, volumes, found, ok) ==
    [op |-> name, id |-> id, all |-> all, force |-> force, volumes |-> volumes,
     found |-> found, ok |-> ok]

Simple(name, id, ok) == Issued(name, id, FALSE, FALSE, FALSE, {}, ok)

\* the names of the files handed to RunDaemonized
FileName(i) == <<"a.txt", "b.txt", "c.txt", "d.txt">>[i]
FileNames == {FileName(i) : i \in 1..MaxFiles}

\* a files map, by what the content of each name is: literal bytes, a string
\* that parses as a URL and starts with "http", or "none" for a name the map
\* does not hold
NoFiles == [n \in FileNames |-> "none"]
FileSets == [FileNames -> {"none", "literal", "url"}]

\* a mounts map, host path -> in-container path
NoMounts == <<>>

\* the two output streams of a container
Streams == {"stdout", "stderr"}

NoOp == [fn |-> "none", name |-> <<>>, labels |-> NoLabels, restart |-> FALSE,
         done |-> FALSE, matcher |-> WithID(0), removeContainer |-> FALSE, destroyData |-> FALSE,
         files |-> NoFiles, mounts |-> NoMounts, streams |-> FALSE, id |-> 0]

\* no staging, no wait and no stream has begun
AuxStart ==
    /\ mounts = NoMounts
    /\ binds = {}
    /\ todo = {}
    /\ wg = 0
    /\ fetch = [n \in FileNames |-> "none"]
    /\ disk = [n \in FileNames |-> "absent"]
    /\ staged = "no"
    /\ cancelled = FALSE
    /\ captured = FALSE
    /\ output = [d \in Streams |-> 0]
    /\ pipe = [d \in Streams |-> [buf |-> <<>>, closed |-> FALSE]]
    /\ pump = [d \in Streams |-> "off"]
    /\ data = [d \in Streams |-> [buf |-> <<>>, err |-> FALSE]]
    /\ got = [d \in Streams |-> <<>>]
    /\ sent = [d \in Streams |-> <<>>]
    /\ cw = "none"
    /\ inpump = "off"
    /\ received = 0
    /\ stdinClosed = FALSE

ContainerStart(population) ==
    /\ AuxStart
    /\ containers = population
    /\ nextID = Cardinality(DOMAIN population) + 1
    /\ op = NoOp
    /\ pc = "idle"
    /\ container = Nil
    /\ containerID = 0
    /\ c = Nil
    /\ err = NoError
    /\ result = [c |-> Nil, err |-> NoError]
    /\ target = 0
    /\ calls = <<>>
    /\ mon = "off"
    /\ signals = 0
    /\ runs = 0

\* positions of a fetch goroutine that was not started or has returned
FetchEnded == {"none", "done", "doneEmpty", "unwritten"}

\* no orchestration call is running and no goroutine of an earlier one is
\* alive
Quiet ==
    /\ pc \in {"idle", "returned"}
    /\ mon \in {"off", "done"}
    /\ \A n \in FileNames : fetch[n] \in FetchEnded
    /\ \A d \in Streams : pump[d] \in {"off", "done"}
    /\ inpump \in {"off", "done"}

\* entering an orchestration call: docker.NewClientFromEnv and fresh locals
Enter(o, clientOk, first) ==
    /\ Quiet
    /\ runs < MaxRuns
    /\ runs' = runs + 1
    /\ op' = o
    /\ container' = Nil
    /\ containerID' = 0
    /\ c' = Nil
    /\ err' = NoError
    /\ target' = 0
    /\ calls' = <<>>
    /\ mon' = "off"
    /\ signals' = 0
    /\ result' = [c |-> Nil, err |-> IF clientOk THEN NoError ELSE "client"]
    /\ pc' = IF clientOk THEN first ELSE "returned"
    /\ mounts' = o.mounts
    /\ binds' = {}
    /\ todo' = {}
    /\ wg' = 0
    /\ fetch' = [n \in FileNames |-> "none"]
    /\ staged' = "no"
    /\ cancelled' = FALSE
    /\ captured' = FALSE
    /\ output' = [d \in Streams |-> 0]
    /\ pipe' = [d \in Streams |-> [buf |-> <<>>, closed |-> FALSE]]
    /\ pump' = [d \in Streams |-> "off"]
    /\ data' = [d \in Streams |-> [buf |-> <<>>, err |-> FALSE]]
    /\ got' = [d \in Streams |-> <<>>]
    /\ sent' = [d \in Streams |-> <<>>]
    /\ cw' = "none"
    /\ inpump' = "off"
    /\ received' = 0
    /\ stdinClosed' = FALSE
    /\ UNCHANGED <<containers, nextID, disk>>
    /\ UNCHANGED meterVars

\* run returns (handle, error) to its caller
RunReturn(handle, e) ==
    /\ c' = handle
    /\ err' = e
    /\ pc' = "afterRun"

\* a container stops on its own
ContainerExits(id) ==
    /\ Exists(id)
    /\ containers[id].State = "running"
    /\ containers' = WithState(id, "exited")
    /\ UNCHANGED <<nextID, op, pc, container, containerID, c, err, result, target, calls,
                   mon, signals, runs>>
    /\ UNCHANGED <<meterVars, auxVars>>

----------------------------------------------------------------------------
(* run *)

\* line 232: fmt.Sprintf("%s:%s", s, d)
Bind(source, dest) == source \o <<":">> \o dest

\* lines 225-234: one bind for each entry of the mounts map
Binds(m) == {Bind(source, m[source]) : source \in DOMAIN m}

\* a pull whose failure is only logged
RunPullThenCreate(ok) ==
    /\ pc = "pull"
    /\ calls' = Append(calls, Simple("pull", 0, ok))
    /\ pc' = "create"
    /\ UNCHANGED <<c, err>>
    /\ UNCHANGED <<containers, nextID, op, container, containerID, result, target, mon,
                   signals, runs>>
    /\ UNCHANGED <<meterVars, auxVars>>

\* lines 217-223: PullImage
RunPull(ok) ==
    /\ pc = "pull"
    /\ calls' = Append(calls, Simple("pull", 0, ok))
    /\ IF ok THEN pc' = "create" /\ binds' = Binds(mounts) /\ UNCHANGED <<c, err>>
       ELSE RunReturn(Nil, "pull") /\ UNCHANGED binds
    /\ UNCHANGED <<containers, nextID, op, container, containerID, result, target, mon,
                   signals, runs>>
    /\ UNCHANGED <<mounts, todo, wg, fetch, disk, staged>>
    /\ UNCHANGED <<meterVars, lambdaVars, streamVars, stdinVars>>

\* lines 251-289: CreateContainer; the runtime refuses a name already in use
RunCreate(ok) ==
    /\ pc = "create"
    /\ ok => ~\E id \in DOMAIN containers : Slash(op.name) \in containers[id].Names
    /\ calls' = Append(calls, Simple("create", IF ok THEN nextID ELSE 0, ok))
    /\ IF ok
       THEN /\ containers' = (nextID :> Descriptor(nextID, {Slash(op.name)}, op.labels, "created"))
                                @@ containers
            /\ nextID' = nextID + 1
            /\ container' = Handle(nextID)
            /\ containerID' = nextID
            /\ pc' = "start"
            /\ UNCHANGED <<c, err>>
       ELSE /\ UNCHANGED <<containers, nextID, container, containerID>>
            /\ IF ~op.restart THEN RunReturn(Nil, "create")
               ELSE pc' = "lookup" /\ UNCHANGED <<c, err>>
    /\ UNCHANGED <<op, result, target, mon, signals, runs>>
    /\ UNCHANGED <<meterVars, auxVars>>

\* a lookup that lists running containers only
RunLookupRunningOnly == FALSE

\* line 279: the lookup lists with all = true
RunLookupAll == TRUE

\* lines 277-286: find the container by name
RunLookup(ok) ==
    /\ pc = "lookup"
    /\ LET found == IF ok THEN List(WithName(op.name), RunLookupAll) ELSE {}
       IN  /\ calls' = Append(calls, Issued("list", 0, RunLookupAll, FALSE, FALSE, found, ok))
           /\ IF ~ok THEN RunReturn(Nil, "list") /\ UNCHANGED containerID
              ELSE IF Cardinality(found) # 1
                   THEN RunReturn(Nil, "notfound") /\ UNCHANGED containerID
                   ELSE /\ containerID' = CHOOSE id \in found : TRUE
                        /\ pc' = "start"
                        /\ UNCHANGED <<c, err>>
    /\ UNCHANGED <<containers, nextID, op, container, result, target, mon, signals, runs>>
    /\ UNCHANGED <<meterVars, auxVars>>

\* a start that is tried again after it failed
RunStartRetries(ok) ==
    /\ pc = "start"
    /\ ok => Exists(containerID)
    /\ calls' = Append(calls, Simple("start", containerID, ok))
    /\ containers' = IF ok THEN WithState(containerID, "running") ELSE containers
    /\ pc' = IF ok THEN "inspect" ELSE "start"
    /\ UNCHANGED <<c, err>>
    /\ UNCHANGED <<nextID, op, container, containerID, result, target, mon, signals, runs>>
    /\ UNCHANGED <<meterVars, auxVars>>

\* lines 293-298: StartContainer
RunStart(ok) ==
    /\ pc = "start"
    /\ ok => Exists(containerID)
    /\ calls' = Append(calls, Simple("start", containerID, ok))
    /\ IF ok
       THEN /\ containers' = WithState(containerID, "running")
            /\ pc' = "inspect"
            /\ UNCHANGED <<c, err>>
       ELSE /\ RunReturn(Nil, "start")
            /\ UNCHANGED containers
    /\ UNCHANGED <<nextID, op, container, containerID, result, target, mon, signals, runs>>
    /\ UNCHANGED <<meterVars, auxVars>>

\* lines 302-307: InspectContainer; on error run returns CreateContainer's
\* result, which is nil when the container was found by name
RunInspect(ok) ==
    /\ pc = "inspect"
    /\ ok => Exists(containerID)
    /\ calls' = Append(calls, Simple("inspect", containerID, ok))
    /\ RunReturn(IF ok THEN Handle(containerID) ELSE container, NoError)
    /\ UNCHANGED <<containers, nextID, op, container, containerID, result, target, mon,
                   signals, runs>>
    /\ UNCHANGED <<meterVars, auxVars>>

----------------------------------------------------------------------------
(* RunLambda *)

CallRunLambda(name, clientOk) ==
    Enter([NoOp EXCEPT !.fn = "RunLambda", !.name = name], clientOk, "pull")

\* lines 417-432: run failed: return its error; else register the cleanup
LambdaAfterRun ==
    /\ pc = "afterRun"
    /\ op.fn = "RunLambda"
    /\ IF err # NoError
       THEN result' = [c |-> Nil, err |-> err] /\ pc' = "returned"
       ELSE UNCHANGED result /\ pc' = "wait"
    /\ UNCHANGED <<containers, nextID, op, container, containerID, c, err, target, calls,
                   mon, signals, runs>>
    /\ UNCHANGED <<meterVars, auxVars>>

\* the caller cancels the context it gave to RunLambda
ContextCancel ==
    /\ op.fn = "RunLambda"
    /\ pc \notin {"returned", "crashed"}
    /\ ~cancelled
    /\ cancelled' = TRUE
    /\ UNCHANGED captured
    /\ UNCHANGED <<meterVars, containerVars, stagingVars, streamVars, stdinVars>>

\* how WaitContainerWithContext may return: the container has stopped, the
\* context is done, or the request failed
WaitOutcomes == {"exited", "cancelled", "failed"}

\* a wait whose error is only logged
LambdaWaitThenLogs(outcome) ==
    /\ pc = "wait"
    /\ outcome = "exited" => Exists(c.ID) /\ containers[c.ID].State # "running"
    /\ outcome = "cancelled" => cancelled
    /\ calls' = Append(calls, Simple("wait", c.ID, outcome = "exited"))
    /\ pc' = "logs"
    /\ UNCHANGED <<containers, nextID, op, container, containerID, c, err, result, target,
                   mon, signals, runs>>
    /\ UNCHANGED <<meterVars, auxVars>>

\* lines 434-438: WaitContainerWithContext blocks until the container has
\* stopped (nil) or the context is done or the request fails (an error,
\* which RunLambda returns with no output)
LambdaWait(outcome) ==
    /\ pc = "wait"
    /\ outcome = "exited" => Exists(c.ID) /\ containers[c.ID].State # "running"
    /\ outcome = "cancelled" => cancelled
    /\ calls' = Append(calls, Simple("wait", c.ID, outcome = "exited"))
    /\ IF outcome = "exited" THEN pc' = "logs" /\ UNCHANGED result
       ELSE pc' = "cleanup" /\ result' = [c |-> Nil, err |-> "wait"]
    /\ UNCHANGED <<containers, nextID, op, container, containerID, c, err, target, mon,
                   signals, runs>>
    /\ UNCHANGED <<meterVars, auxVars>>

\* lines 440-456: Logs into two buffers; its error is only logged, and the
\* buffers are what RunLambda returns
LambdaLogs(ok) ==
    /\ pc = "logs"
    /\ calls' = Append(calls, Simple("logs", c.ID, ok))
    /\ result' = [c |-> Nil, err |-> NoError]
    /\ captured' = TRUE
    /\ pc' = "cleanup"
    /\ UNCHANGED <<containers, nextID, op, container, containerID, c, err, target, mon,
                   signals, runs>>
    /\ UNCHANGED cancelled
    /\ UNCHANGED <<meterVars, stagingVars, streamVars, stdinVars>>

\* lines 423-432, the deferred RemoveContainer(Force, RemoveVolumes: true)
LambdaCleanup(ok) ==
    /\ pc = "cleanup"
    /\ ok <=> Exists(c.ID)
    /\ calls' = Append(calls, Issued("remove", c.ID, FALSE, TRUE, TRUE, {}, ok))
    /\ containers' = IF ok THEN Without(c.ID) ELSE containers
    /\ pc' = "returned"
    /\ UNCHANGED <<nextID, op, container, containerID, c, err, result, target, mon,
                   signals, runs>>
    /\ UNCHANGED <<meterVars, auxVars>>

----------------------------------------------------------------------------
(* RunDaemonized and its monitor goroutine *)

CallRunDaemonized(name, labels, restart, done, files, streams, clientOk) ==
    Enter([NoOp EXCEPT !.fn = "RunDaemonized", !.name = name, !.labels = labels,
                       !.restart = restart, !.done = done, !.files = files,
                       !.streams = streams], clientOk, "stage")

\* viper.GetString("mounts"), the configured root of the host directories
MountsRoot == <<"/", "m", "n", "t">>

\* line 321: path.Join(viper.GetString("mounts"), name)
HostDir(name) == MountsRoot \o <<"/">> \o name

Minion == <<"/", "m", "i", "n", "i", "o", "n">>

\* a map literal with keys that are not constants: the elements are stored
\* in the order written, a later one replacing an earlier one of the same key
RECURSIVE MapLiteral(_)
MapLiteral(pairs) ==
    IF pairs = <<>> THEN <<>>
    ELSE LET last == pairs[Len(pairs)]
         IN  (last[1] :> last[2]) @@ MapLiteral(SubSeq(pairs, 1, Len(pairs) - 1))

\* lines 329-332: the mounts of a daemonized container
DaemonMounts(name) ==
    MapLiteral(<< <<HostDir(name), Slash(name)>>, <<HostDir(name), Minion>> >>)

\* lines 321-332: MkdirAll, which may fail before any runtime call, then
\* the mounts map; LoadFiles is entered with the whole map to visit
DaemonMkdirAll(ok) ==
    /\ pc = "stage"
    /\ IF ok
       THEN /\ mounts' = DaemonMounts(op.name)
            /\ todo' = {n \in FileNames : op.files[n] # "none"}
            /\ pc' = "loadFiles"
            /\ UNCHANGED result
       ELSE /\ pc' = "returned"
            /\ result' = [c |-> Nil, err |-> "mkdir"]
            /\ UNCHANGED <<mounts, todo>>
    /\ UNCHANGED <<containers, nextID, op, container, containerID, c, err, target, calls,
                   mon, signals, runs>>
    /\ UNCHANGED <<binds, wg, fetch, disk, staged>>
    /\ UNCHANGED <<meterVars, lambdaVars, streamVars, stdinVars>>

\* lines 125-129 and 154: the range loop meets an entry whose content looks
\* like a URL: wg.Add(1) and a goroutine to fetch it
LoadFilesSpawn(n) ==
    /\ pc = "loadFiles"
    /\ n \in todo
    /\ op.files[n] = "url"
    /\ wg' = wg + 1
    /\ fetch' = [fetch EXCEPT ![n] = "request"]
    /\ todo' = todo \ {n}
    /\ UNCHANGED <<mounts, binds, disk, staged>>
    /\ UNCHANGED <<meterVars, containerVars, lambdaVars, streamVars, stdinVars>>

\* lines 155-163: the range loop meets a literal entry and writes it; a
\* failed write makes LoadFiles return the error at once, and RunDaemonized
\* return it (lines 334-336)
LoadFilesWrite(n, ok) ==
    /\ pc = "loadFiles"
    /\ n \in todo
    /\ op.files[n] = "literal"
    /\ IF ok
       THEN /\ disk' = [disk EXCEPT ![n] = "literal"]
            /\ todo' = todo \ {n}
            /\ UNCHANGED <<pc, result, staged>>
       ELSE /\ staged' = "err"
            /\ pc' = "returned"
            /\ result' = [c |-> Nil, err |-> "write"]
            /\ UNCHANGED <<disk, todo>>
    /\ UNCHANGED <<containers, nextID, op, container, containerID, c, err, target, calls,
                   mon, signals, runs>>
    /\ UNCHANGED <<mounts, binds, wg, fetch>>
    /\ UNCHANGED <<meterVars, lambdaVars, streamVars, stdinVars>>

\* a LoadFiles that returns without waiting for its goroutines
WaitGroupNotAwaited == TRUE

\* line 167: wg.Wait() returns when the counter is zero
WaitGroupDone == wg = 0

\* lines 166-168: the loop is over; wait for the fetches and return nil
LoadFilesWait ==
    /\ pc = "loadFiles"
    /\ todo = {}
    /\ WaitGroupDone
    /\ staged' = "nil"
    /\ pc' = "pull"
    /\ UNCHANGED <<containers, nextID, op, container, containerID, c, err, result, target,
                   calls, mon, signals, runs>>
    /\ UNCHANGED <<mounts, binds, todo, wg, fetch, disk>>
    /\ UNCHANGED <<meterVars, lambdaVars, streamVars, stdinVars>>

\* what http.DefaultClient.Do may give: a response; an error and no
\* response; an error and a response whose body is closed already (a
\* redirect that was refused)
FetchOutcomes == {"ok", "noresponse", "closedbody"}

\* lines 130-146: the goroutine's request.  An error of Do is only logged;
\* then "defer response.Body.Close()" dereferences the nil response: the
\* goroutine panics, its deferred wg.Done() runs, and the process dies.
\* With a closed body ReadAll fails, which is logged, and nothing was read.
FetchDo(n, outcome) ==
    /\ pc # "crashed"
    /\ fetch[n] = "request"
    /\ CASE outcome = "ok" ->
              fetch' = [fetch EXCEPT ![n] = "write"] /\ UNCHANGED <<wg, pc>>
         [] outcome = "closedbody" ->
              fetch' = [fetch EXCEPT ![n] = "writeEmpty"] /\ UNCHANGED <<wg, pc>>
         [] outcome = "noresponse" ->
              /\ fetch' = [fetch EXCEPT ![n] = "panicked"]
              /\ wg' = wg - 1
              /\ pc' = "crashed"
    /\ UNCHANGED <<containers, nextID, op, container, containerID, c, err, result, target,
                   calls, mon, signals, runs>>
    /\ UNCHANGED <<mounts, binds, todo, disk, staged>>
    /\ UNCHANGED <<meterVars, lambdaVars, streamVars, stdinVars>>

\* lines 148-153 and 130: the goroutine writes what it read, a failure
\* being logged only, and ends with wg.Done()
FetchWrite(n, ok) ==
    /\ pc # "crashed"
    /\ fetch[n] \in {"write", "writeEmpty"}
    /\ disk' = IF ~ok THEN disk
               ELSE [disk EXCEPT ![n] = IF fetch[n] = "write" THEN "fetched" ELSE "empty"]
    /\ fetch' = [fetch EXCEPT ![n] = IF fetch[n] = "writeEmpty" THEN "doneEmpty"
                                     ELSE IF ok THEN "done" ELSE "unwritten"]
    /\ wg' = wg - 1
    /\ UNCHANGED <<mounts, binds, todo, staged>>
    /\ UNCHANGED <<meterVars, containerVars, lambdaVars, streamVars, stdinVars>>

\* lines 338-370: run failed: return its error; else start the monitor when
\* a done channel was given, and return the handle unless both output
\* channels were given
DaemonAfterRun ==
    /\ pc = "afterRun"
    /\ op.fn = "RunDaemonized"
    /\ mon' = IF err = NoError /\ op.done THEN "poll" ELSE mon
    /\ IF err = NoError /\ op.streams
       THEN pc' = "logs" /\ UNCHANGED result
       ELSE /\ result' = [c |-> IF err # NoError THEN Nil ELSE c, err |-> err]
            /\ pc' = "returned"
    /\ UNCHANGED <<containers, nextID, op, container, containerID, c, err, target, calls,
                   signals, runs>>
    /\ UNCHANGED <<meterVars, auxVars>>

\* the bytes of a stream are numbered in the order the container writes
\* them: those from number from + 1 up to number to
Bytes(from, to) == [i \in 1..(to - from) |-> from + i]

\* the container whose output the call in progress forwards
Watched == IF op.fn = "Attach" THEN op.id ELSE containerID

\* the running container writes n more bytes to one of its streams
ContainerWrites(d, n) ==
    /\ op.fn \in {"RunDaemonized", "Attach"}
    /\ Exists(Watched)
    /\ containers[Watched].State = "running"
    /\ output[d] + n <= MaxBytes
    /\ output' = [output EXCEPT ![d] = output[d] + n]
    /\ UNCHANGED <<pipe, pump, data, got, sent, cw>>
    /\ UNCHANGED <<meterVars, containerVars, stagingVars, lambdaVars, stdinVars>>

\* lines 373-380: client.Logs with Stdout only and no Follow, called before
\* any reader of the pipes exists: the runtime's log of stdout so far is
\* written to stdoutw, a Write that blocks until a Read has taken all of it;
\* the error Logs returns is dropped.  c.ID on a nil handle is a nil
\* dereference.
DaemonLogs(ok) ==
    /\ pc = "logs"
    /\ IF c.isNil
       THEN pc' = "crashed" /\ UNCHANGED <<calls, pipe>>
       ELSE /\ calls' = Append(calls, Simple("logs", c.ID, ok))
            /\ pipe' = IF ok
                       THEN [pipe EXCEPT !["stdout"].buf = Bytes(0, output["stdout"])]
                       ELSE pipe
            /\ pc' = "logsWrite"
    /\ UNCHANGED <<containers, nextID, op, container, containerID, c, err, result, target,
                   mon, signals, runs>>
    /\ UNCHANGED <<output, pump, data, got, sent, cw>>
    /\ UNCHANGED <<meterVars, stagingVars, lambdaVars, stdinVars>>

\* lines 380-404: Logs has returned, its Write taken; start the two pumps
\* and return the handle
DaemonStartPumps ==
    /\ pc = "logsWrite"
    /\ pipe["stdout"].buf = <<>>
    /\ pump' = [d \in Streams |-> "read"]
    /\ result' = [c |-> c, err |-> NoError]
    /\ pc' = "returned"
    /\ UNCHANGED <<containers, nextID, op, container, containerID, c, err, target, calls,
                   mon, signals, runs>>
    /\ UNCHANGED <<output, pipe, data, got, sent, cw>>
    /\ UNCHANGED <<meterVars, stagingVars, lambdaVars, stdinVars>>

Min(a, b) == IF a < b THEN a ELSE b

\* make([]byte, BufSize) after a Read that stored chunk at its start
Buffer(chunk) == chunk \o [i \in 1..(BufSize - Len(chunk)) |-> 0]

\* lines 383-385, 490-493: data := make([]byte, 512); _, err := r.Read(data).
\* A Read of a pipe blocks until a Write is in progress, takes up to the
\* buffer's length of it, and returns an error and no byte once the writer
\* end is closed.
PumpRead(d) ==
    /\ pc # "crashed"
    /\ pump[d] = "read"
    /\ pipe[d].buf # <<>> \/ pipe[d].closed
    /\ LET n == Min(Len(pipe[d].buf), BufSize)
       IN  /\ data' = [data EXCEPT ![d] = [buf |-> Buffer(SubSeq(pipe[d].buf, 1, n)),
                                           err |-> pipe[d].buf = <<>>]]
           /\ got' = [got EXCEPT ![d] = got[d] \o SubSeq(pipe[d].buf, 1, n)]
           /\ pipe' = [pipe EXCEPT ![d].buf = SubSeq(pipe[d].buf, n + 1, Len(pipe[d].buf))]
    /\ pump' = [pump EXCEPT ![d] = "send"]
    /\ UNCHANGED <<output, sent, cw>>
    /\ UNCHANGED <<meterVars, containerVars, stagingVars, lambdaVars, stdinVars>>

\* a pump that goes round its loop again after an error
PumpSendThenReadOn(d) ==
    /\ pc # "crashed"
    /\ pump[d] = "send"
    /\ sent' = [sent EXCEPT ![d] = sent[d] \o data[d].buf]
    /\ pump' = [pump EXCEPT ![d] = IF op.fn = "Attach" THEN "read" ELSE "done"]
    /\ UNCHANGED <<output, pipe, data, got, cw>>
    /\ UNCHANGED <<meterVars, containerVars, stagingVars, lambdaVars, stdinVars>>

\* lines 386-390, 494-499: out <- data, the whole buffer, whatever the Read
\* returned.  The pump of RunDaemonized then ends; the pump of Attach reads
\* again, or after an error closes the connection and ends.
PumpSend(d) ==
    /\ pc # "crashed"
    /\ pump[d] = "send"
    /\ sent' = [sent EXCEPT ![d] = sent[d] \o data[d].buf]
    /\ pump' = [pump EXCEPT ![d] = IF op.fn = "Attach" /\ ~data[d].err THEN "read"
                                   ELSE "done"]
    /\ cw' = IF op.fn = "Attach" /\ data[d].err THEN "closed" ELSE cw
    /\ UNCHANGED <<output, pipe, data, got>>
    /\ UNCHANGED <<meterVars, containerVars, stagingVars, lambdaVars, stdinVars>>

\* a monitor that takes its first inspect for the end of the container
MonitorInspectOnce(ok) ==
    /\ mon = "poll"
    /\ ~c.isNil
    /\ ok => Exists(c.ID)
    /\ mon' = "send"
    /\ calls' = Append(calls, Simple("monitorInspect", c.ID, ok))
    /\ UNCHANGED <<containers, nextID, op, pc, container, containerID, c, err, result, target,
                   signals, runs>>
    /\ UNCHANGED <<meterVars, auxVars>>

\* lines 357-360: after the one-second sleep, InspectContainer(c.ID).  c.ID
\* on a nil handle is a nil dereference: the goroutine panics and the
\* process dies.  While the container is inspected as running the loop goes
\* round and nothing changes.
MonitorInspect(ok) ==
    /\ mon = "poll"
    /\ IF c.isNil
       THEN /\ mon' = "panicked"
            /\ pc' = "crashed"
            /\ UNCHANGED calls
       ELSE /\ ok => Exists(c.ID)
            /\ IF ok /\ containers[c.ID].State = "running"
               THEN UNCHANGED <<mon, calls>>
               ELSE /\ mon' = "send"
                    /\ calls' = Append(calls, Simple("monitorInspect", c.ID, ok))
            /\ UNCHANGED pc
    /\ UNCHANGED <<containers, nextID, op, container, containerID, c, err, result, target,
                   signals, runs>>
    /\ UNCHANGED <<meterVars, auxVars>>

\* line 361: done <- true, which completes when the channel's reader takes it
MonitorSend ==
    /\ mon = "send"
    /\ signals' = signals + 1
    /\ mon' = "cleanup"
    /\ UNCHANGED <<containers, nextID, op, pc, container, containerID, c, err, result,
                   target, calls, runs>>
    /\ UNCHANGED <<meterVars, auxVars>>

\* a monitor cleanup that asks for the volumes to go too
MonitorCleanupWithVolumes(ok) ==
    /\ mon = "cleanup"
    /\ ok <=> Exists(c.ID)
    /\ calls' = Append(calls, Issued("remove", c.ID, FALSE, TRUE, TRUE, {}, ok))
    /\ containers' = IF ok THEN Without(c.ID) ELSE containers
    /\ mon' = "done"
    /\ UNCHANGED <<nextID, op, pc, container, containerID, c, err, result, target,
                   signals, runs>>
    /\ UNCHANGED <<meterVars, auxVars>>

\* lines 347-356, the deferred RemoveContainer(Force, RemoveVolumes: false)
MonitorCleanup(ok) ==
    /\ mon = "cleanup"
    /\ ok <=> Exists(c.ID)
    /\ calls' = Append(calls, Issued("remove", c.ID, FALSE, TRUE, FALSE, {}, ok))
    /\ containers' = IF ok THEN Without(c.ID) ELSE containers
    /\ mon' = "done"
    /\ UNCHANGED <<nextID, op, pc, container, containerID, c, err, result, target,
                   signals, runs>>
    /\ UNCHANGED <<meterVars, auxVars>>

----------------------------------------------------------------------------
(* Kill *)

CallKill(matcher, removeContainer, destroyData, clientOk) ==
    Enter([NoOp EXCEPT !.fn = "Kill", !.matcher = matcher,
                       !.removeContainer = removeContainer,
                       !.destroyData = destroyData], clientOk, "killList")

\* lines 180-188: List(client, matcher, false) must give exactly one container
KillList(ok) ==
    /\ pc = "killList"
    /\ LET found == IF ok THEN List(op.matcher, FALSE) ELSE {}
       IN  /\ calls' = Append(calls, Issued("list", 0, FALSE, FALSE, FALSE, found, ok))
           /\ IF ~ok
              THEN pc' = "returned" /\ result' = [c |-> Nil, err |-> "list"]
                   /\ UNCHANGED target
              ELSE IF Cardinality(found) # 1
                   THEN pc' = "returned" /\ result' = [c |-> Nil, err |-> "count"]
                        /\ UNCHANGED target
                   ELSE /\ target' = CHOOSE id \in found : TRUE
                        /\ pc' = "kill"
                        /\ UNCHANGED result
    /\ UNCHANGED <<containers, nextID, op, container, containerID, c, err, mon, signals,
                   runs>>
    /\ UNCHANGED <<meterVars, auxVars>>

\* a Kill that goes on to the removal whatever KillContainer returned
KillKillThenAlwaysRemove(ok) ==
    /\ pc = "kill"
    /\ ok => Exists(target) /\ containers[target].State = "running"
    /\ calls' = Append(calls, Simple("kill", target, ok))
    /\ containers' = IF ok THEN WithState(target, "exited") ELSE containers
    /\ IF op.removeContainer THEN pc' = "killRemove" /\ UNCHANGED result
       ELSE pc' = "returned" /\ result' = [c |-> Nil, err |-> NoError]
    /\ UNCHANGED <<nextID, op, container, containerID, c, err, target, mon, signals, runs>>
    /\ UNCHANGED <<meterVars, auxVars>>

\* lines 190-196: KillContainer; the runtime refuses a container that is
\* not running
KillKill(ok) ==
    /\ pc = "kill"
    /\ ok => Exists(target) /\ containers[target].State = "running"
    /\ calls' = Append(calls, Simple("kill", target, ok))
    /\ containers' = IF ok THEN WithState(target, "exited") ELSE containers
    /\ IF ~ok THEN pc' = "returned" /\ result' = [c |-> Nil, err |-> "kill"]
       ELSE IF op.removeContainer THEN pc' = "killRemove" /\ UNCHANGED result
       ELSE pc' = "returned" /\ result' = [c |-> Nil, err |-> NoError]
    /\ UNCHANGED <<nextID, op, container, containerID, c, err, target, mon, signals, runs>>
    /\ UNCHANGED <<meterVars, auxVars>>

\* lines 196-210: RemoveContainer(Force, RemoveVolumes: destroyData)
KillRemove(ok) ==
    /\ pc = "killRemove"
    /\ ok <=> Exists(target)
    /\ calls' = Append(calls, Issued("remove", target, FALSE, TRUE, op.destroyData, {}, ok))
    /\ containers' = IF ok THEN Without(target) ELSE containers
    /\ result' = [c |-> Nil, err |-> IF ok THEN NoError ELSE "remove"]
    /\ pc' = "returned"
    /\ UNCHANGED <<nextID, op, container, containerID, c, err, target, mon, signals, runs>>
    /\ UNCHANGED <<meterVars, auxVars>>

----------------------------------------------------------------------------
(* Attach *)

CallAttach(id, clientOk) ==
    Enter([NoOp EXCEPT !.fn = "Attach", !.id = id], clientOk, "attach")

\* lines 468-529: the pipes, AttachToContainerNonBlocking, and on success
\* the pumps; on its error Attach returns it and starts nothing
AttachToContainer(ok) ==
    /\ pc = "attach"
    /\ ok => Exists(op.id)
    /\ calls' = Append(calls, Simple("attach", op.id, ok))
    /\ pump' = IF ok THEN [d \in Streams |-> "read"] ELSE pump
    /\ cw' = IF ok THEN "open" ELSE cw
    /\ result' = [c |-> Nil, err |-> IF ok THEN NoError ELSE "attach"]
    /\ pc' = "returned"
    /\ UNCHANGED <<containers, nextID, op, container, containerID, c, err, target, mon,
                   signals, runs>>
    /\ inpump' = IF ok THEN "recv" ELSE inpump
    /\ UNCHANGED <<output, pipe, data, got, sent, received, stdinClosed>>
    /\ UNCHANGED <<meterVars, stagingVars, lambdaVars>>

\* the attached connection copies what the container has written since the
\* last copy to the stream's pipe writer (OutputStream, ErrorStream), a
\* Write that lasts until the pump has read all of it
StreamWrite(d) ==
    /\ pc # "crashed"
    /\ cw = "open"
    /\ ~pipe[d].closed
    /\ pipe[d].buf = <<>>
    /\ Len(got[d]) < output[d]
    /\ pipe' = [pipe EXCEPT ![d].buf = Bytes(Len(got[d]), output[d])]
    /\ UNCHANGED <<output, pump, data, got, sent, cw>>
    /\ UNCHANGED <<meterVars, containerVars, stagingVars, lambdaVars, stdinVars>>

\* the stream ends: the writer end of its pipe is closed, and the pump's
\* next Read returns an error
StreamClose(d) ==
    /\ pc # "crashed"
    /\ cw # "none"
    /\ ~pipe[d].closed
    /\ pipe[d].buf = <<>>
    /\ pipe' = [pipe EXCEPT ![d].closed = TRUE]
    /\ UNCHANGED <<output, pump, data, got, sent, cw>>
    /\ UNCHANGED <<meterVars, containerVars, stagingVars, lambdaVars, stdinVars>>

\* number of lines the caller of Attach sends on the in channel
MaxLines == 1

\* line 519: "for line := range in" takes the next line the caller sent
StdinRecv ==
    /\ pc # "crashed"
    /\ inpump = "recv"
    /\ received < MaxLines
    /\ received' = received + 1
    /\ inpump' = "write"
    /\ UNCHANGED stdinClosed
    /\ UNCHANGED <<meterVars, containerVars, stagingVars, lambdaVars, streamVars>>

\* line 519: the caller has closed the in channel; the loop and the
\* goroutine end
StdinEnd ==
    /\ pc # "crashed"
    /\ inpump = "recv"
    /\ inpump' = "done"
    /\ UNCHANGED <<received, stdinClosed>>
    /\ UNCHANGED <<meterVars, containerVars, stagingVars, lambdaVars, streamVars>>

\* the attached connection stops reading stdin: the read end of the pipe is
\* closed, and a Write to it returns an error
StdinClose ==
    /\ pc # "crashed"
    /\ cw # "none"
    /\ ~stdinClosed
    /\ stdinClosed' = TRUE
    /\ UNCHANGED <<inpump, received>>
    /\ UNCHANGED <<meterVars, containerVars, stagingVars, lambdaVars, streamVars>>

\* lines 520-525: w.Write(line); on its error c.Close() and return
StdinWrite ==
    /\ pc # "crashed"
    /\ inpump = "write"
    /\ inpump' = IF stdinClosed THEN "done" ELSE "recv"
    /\ cw' = IF stdinClosed THEN "closed" ELSE cw
    /\ UNCHANGED <<received, stdinClosed>>
    /\ UNCHANGED <<output, pipe, pump, data, got, sent>>
    /\ UNCHANGED <<meterVars, containerVars, stagingVars, lambdaVars>>

----------------------------------------------------------------------------
(* Specifications *)

\* matchers handed to Kill
KillMatchers == {WithName(NameWeb), WithLabel(LabelKey, "golem"), WithID(1)}

ContainerInit == \E population \in Populations : ContainerStart(population)

ContainerNext ==
    \/ \E clientOk \in BOOLEAN : CallRunLambda(NameWeb, clientOk)
    \/ \E restart, done, clientOk \in BOOLEAN :
           CallRunDaemonized(NameWeb, LabelGolem, restart, done, NoFiles, FALSE, clientOk)
    \/ \E m \in KillMatchers, removeContainer, destroyData, clientOk \in BOOLEAN :
           CallKill(m, removeContainer, destroyData, clientOk)
    \/ \E id \in DOMAIN containers : ContainerExits(id)
    \/ \E ok \in BOOLEAN : RunPull(ok)
    \/ \E ok \in BOOLEAN : RunCreate(ok)
    \/ \E ok \in BOOLEAN : RunLookup(ok)
    \/ \E ok \in BOOLEAN : RunStart(ok)
    \/ \E ok \in BOOLEAN : RunInspect(ok)
    \/ LambdaAfterRun
    \/ ContextCancel
    \/ \E outcome \in WaitOutcomes : LambdaWait(outcome)
    \/ \E ok \in BOOLEAN : LambdaLogs(ok)
    \/ \E ok \in BOOLEAN : LambdaCleanup(ok)
    \/ \E ok \in BOOLEAN : DaemonMkdirAll(ok)
    \/ LoadFilesWait
    \/ DaemonAfterRun
    \/ \E ok \in BOOLEAN : MonitorInspect(ok)
    \/ MonitorSend
    \/ \E ok \in BOOLEAN : MonitorCleanup(ok)
    \/ \E ok \in BOOLEAN : KillList(ok)
    \/ \E ok \in BOOLEAN : KillKill(ok)
    \/ \E ok \in BOOLEAN : KillRemove(ok)

\* the orchestrator over any starting population, the ledger untouched
ContainerSpecInit == MeterInit /\ ContainerInit

SpecContainer == ContainerSpecInit /\ [][ContainerNext]_vars

\* once the monitor has left its loop the goroutine is scheduled until it
\* ends, and the reader of the done channel takes what is sent
MonitorFairness ==
    /\ WF_vars(MonitorSend)
    /\ WF_vars(\E ok \in BOOLEAN : MonitorCleanup(ok))

\* the wait returns once the container has stopped or the context is done,
\* and the calls RunLambda makes after it return
LambdaFairness ==
    /\ WF_vars(LambdaWait("exited") \/ LambdaWait("cancelled"))
    /\ WF_vars(\E ok \in BOOLEAN : LambdaLogs(ok))
    /\ WF_vars(\E ok \in BOOLEAN : LambdaCleanup(ok))

SpecContainerFair == SpecContainer /\ MonitorFairness /\ LambdaFairness

\* RunDaemonized over any input set of files, nothing else running
StagingNext ==
    \/ \E files \in FileSets, clientOk \in BOOLEAN :
           CallRunDaemonized(NameWeb, LabelGolem, FALSE, FALSE, files, FALSE, clientOk)
    \/ \E ok \in BOOLEAN : DaemonMkdirAll(ok)
    \/ \E n \in FileNames : LoadFilesSpawn(n)
    \/ \E n \in FileNames, ok \in BOOLEAN : LoadFilesWrite(n, ok)
    \/ LoadFilesWait
    \/ \E n \in FileNames, outcome \in FetchOutcomes : FetchDo(n, outcome)
    \/ \E n \in FileNames, ok \in BOOLEAN : FetchWrite(n, ok)
    \/ \E ok \in BOOLEAN : RunPull(ok)
    \/ \E ok \in BOOLEAN : RunCreate(ok)
    \/ \E ok \in BOOLEAN : RunStart(ok)
    \/ \E ok \in BOOLEAN : RunInspect(ok)
    \/ DaemonAfterRun

StagingSpecInit == MeterInit /\ ContainerStart(<<>>)

SpecStaging == StagingSpecInit /\ [][StagingNext]_vars

\* one running container to attach to
StreamPopulation == (1 :> Descriptor(1, {Slash(NameWeb)}, LabelGolem, "running"))

\* the steps of the goroutine that runs RunDaemonized or Attach
StreamCallSteps ==
    \/ \E ok \in BOOLEAN : DaemonMkdirAll(ok)
    \/ LoadFilesWait
    \/ \E ok \in BOOLEAN : RunPull(ok)
    \/ \E ok \in BOOLEAN : RunCreate(ok)
    \/ \E ok \in BOOLEAN : RunStart(ok)
    \/ \E ok \in BOOLEAN : RunInspect(ok)
    \/ DaemonAfterRun
    \/ \E ok \in BOOLEAN : DaemonLogs(ok)
    \/ DaemonStartPumps
    \/ \E ok \in BOOLEAN : AttachToContainer(ok)

\* RunDaemonized with both output channels, and Attach, over a container
\* that writes to its streams
StreamNext ==
    \/ \E clientOk \in BOOLEAN :
           CallRunDaemonized(NameWeb2, NoLabels, FALSE, FALSE, NoFiles, TRUE, clientOk)
    \/ \E id \in DOMAIN containers, clientOk \in BOOLEAN : CallAttach(id, clientOk)
    \/ StreamCallSteps
    \/ \E id \in DOMAIN containers : ContainerExits(id)
    \/ \E d \in Streams, n \in 1..MaxBytes : ContainerWrites(d, n)
    \/ \E d \in Streams : StreamWrite(d)
    \/ \E d \in Streams : StreamClose(d)
    \/ \E d \in Streams : PumpRead(d)
    \/ \E d \in Streams : PumpSend(d)

StreamSpecInit == MeterInit /\ ContainerStart(StreamPopulation)

SpecStream == StreamSpecInit /\ [][StreamNext]_vars

\* every call of the runtime client returns, every goroutine is scheduled,
\* the readers of the output channels take what is sent, and the attached
\* connection keeps copying
StreamFairness ==
    /\ WF_vars(StreamCallSteps)
    /\ \A d \in Streams :
         WF_vars(StreamWrite(d)) /\ WF_vars(PumpRead(d)) /\ WF_vars(PumpSend(d))

SpecStreamFair == SpecStream /\ StreamFairness

\* Attach with its three pumps, over a container that writes to stdout and
\* is silent on stderr
AttachNext ==
    \/ \E id \in DOMAIN containers, clientOk \in BOOLEAN : CallAttach(id, clientOk)
    \/ \E ok \in BOOLEAN : AttachToContainer(ok)
    \/ \E n \in 1..MaxBytes : ContainerWrites("stdout", n)
    \/ \E d \in Streams : StreamWrite(d)
    \/ \E d \in Streams : StreamClose(d)
    \/ \E d \in Streams : PumpRead(d)
    \/ \E d \in Streams : PumpSend(d)
    \/ StdinRecv
    \/ StdinEnd
    \/ StdinClose
    \/ StdinWrite

AttachSpecInit == MeterInit /\ ContainerStart(StreamPopulation)

SpecAttach == AttachSpecInit /\ [][AttachNext]_vars

\* every pump goroutine is scheduled, the readers of the output channels
\* take what is sent, and a Write to the stdin pipe returns
AttachFairness ==
    /\ WF_vars(StdinWrite)
    /\ \A d \in Streams : WF_vars(PumpRead(d)) /\ WF_vars(PumpSend(d))

SpecAttachFair == SpecAttach /\ AttachFairness

\* the ledger, the orchestrator idle
MeterSpecInit == MeterInit /\ ContainerStart(<<>>)

SpecMeter == MeterSpecInit /\ [][MeterNext]_vars

----------------------------------------------------------------------------
(* Ledger properties *)

Rem(store, id) == GetInt(store, id, KeyRemaining)

Usd(store, id) == GetInt(store, id, KeyUsed)

\* the step in which caller p's RecordMilliseconds returns
RecordReturns(p) == mpc[p] = "end" /\ mpc'[p] = "idle"

\* caller p has returned from a RecordMilliseconds on id
Recorded(p, id) ==
    mpc[p] = "idle" /\ call[p].op = "RecordMilliseconds" /\ call[p].id = id

\* C1: a RecordMilliseconds on an identity whose MillisecondsRemaining is
\* <= 0 returns an error and leaves MillisecondsRemaining and
\* MillisecondsUsed of that identity as they were.
C1_ExhaustedDebitRejected ==
    [][\A p \in Procs :
         (RecordReturns(p) /\ HasBucket(db, call[p].id) /\ Rem(db, call[p].id) <= 0)
         => /\ ret[p].err # NoError
            /\ Rem(db', call[p].id) = Rem(db, call[p].id)
            /\ Usd(db', call[p].id) = Usd(db, call[p].id)]_vars

\* a debit on an exhausted identity has returned its error
C1_Witness ==
    \E p \in Procs, i \in Ids :
        /\ Recorded(p, i) /\ ret[p].err = ErrNoTimeLeft
        /\ HasBucket(db, i) /\ Rem(db, i) <= 0

\* C2: with a balance > 0 RecordMilliseconds returns nil and the entry goes
\* in one step from (remaining, used) to (remaining - ms, used + ms); the
\* published entry never changes in any other way, so no state shows one
\* field updated without the other, and a call that returns an error
\* publishes nothing.
C2_DebitAtomic ==
    [][/\ \A i \in Ids :
            (HasBucket(db, i) /\ db'[i] # db[i])
            => \E p \in Procs :
                 /\ RecordReturns(p) /\ call[p].id = i /\ ret[p].err = NoError
                 /\ Rem(db, i) > 0
                 /\ Rem(db', i) = Rem(db, i) - call[p].ms
                 /\ Usd(db', i) = Usd(db, i) + call[p].ms
       /\ \A p \in Procs :
            (RecordReturns(p) /\ HasBucket(db, call[p].id) /\ Rem(db, call[p].id) > 0)
            => /\ ret[p].err = NoError
               /\ Rem(db', call[p].id) = Rem(db, call[p].id) - call[p].ms
               /\ Usd(db', call[p].id) = Usd(db, call[p].id) + call[p].ms
       /\ \A p \in Procs :
            (RecordReturns(p) /\ ret[p].err # NoError) => db' = db]_vars

\* a debit is between its two Puts while the published entry is untouched
C2_Witness ==
    \E p \in Procs :
        /\ mpc[p] = "putUsed"
        /\ Rem(txn[p], call[p].id) # Rem(db, call[p].id)
        /\ Usd(txn[p], call[p].id) = Usd(db, call[p].id)

\* C3: MillisecondsRemaining, and Inspect, on an identity that has an entry
\* returns no error and the balance granted minus the sum of the successful
\* debits.
C3_ReadsBalance ==
    \A p \in Procs :
        (/\ mpc[p] = "idle"
         /\ call[p].op \in {"MillisecondsRemaining", "Inspect"}
         /\ HasBucket(db, call[p].id))
        => ret[p] = [val |-> call[p].bal, err |-> NoError]

\* C4: with a balance r > 0 a debit of ms > r still returns nil and leaves
\* r - ms < 0; an entry whose balance is <= 0 is never changed again and
\* every RecordMilliseconds on it returns an error.
C4_OvershootThenFrozen ==
    [][/\ \A p \in Procs :
            (/\ RecordReturns(p) /\ HasBucket(db, call[p].id)
             /\ Rem(db, call[p].id) > 0 /\ call[p].ms > Rem(db, call[p].id))
            => /\ ret[p].err = NoError
               /\ Rem(db', call[p].id) = Rem(db, call[p].id) - call[p].ms
               /\ Rem(db', call[p].id) < 0
       /\ \A i \in Ids :
            (HasBucket(db, i) /\ Rem(db, i) <= 0) => db'[i] = db[i]
       /\ \A p \in Procs :
            (RecordReturns(p) /\ HasBucket(db, call[p].id) /\ Rem(db, call[p].id) <= 0)
            => ret[p].err = ErrNoTimeLeft]_vars

\* a balance was driven below 0 and a later debit was refused
C4_Witness ==
    \E p \in Procs, i \in Ids :
        /\ HasBucket(db, i) /\ Rem(db, i) < 0 /\ granted[i] > 0
        /\ Recorded(p, i) /\ ret[p].err = ErrNoTimeLeft

\* C5: whatever the interleaving of the callers, the published entry is the
\* one a serial run of the successful debits leaves: used is the sum of
\* their ms and remaining the granted balance minus that sum.
C5_Serializable ==
    \A i \in Ids :
        HasBucket(db, i)
        => /\ Usd(db, i) = debited[i]
           /\ Rem(db, i) = granted[i] - debited[i]

\* one caller is about to commit a debit while another, with a debit on the
\* same identity, waits for the writer lock
C5_Witness ==
    \E p, q \in Procs :
        /\ p # q
        /\ mpc[p] = "end" /\ ret[p].err = NoError
        /\ mpc[q] = "begin" /\ call[q].id = call[p].id

----------------------------------------------------------------------------
(* Orchestrator properties *)

CallsOf(name) == {i \in DOMAIN calls : calls[i].op = name}

\* a force-remove of container id, with or without its volumes, is in the log
Removed(id, volumes) ==
    \E i \in CallsOf("remove") :
        calls[i].id = id /\ calls[i].force /\ calls[i].volumes = volumes

\* C6: when RunLambda returns, the container it created has been
\* force-removed with its volumes, whatever the exit path.
C6_LambdaLeavesNoContainer ==
    (pc = "returned" /\ op.fn = "RunLambda" /\ ~container.isNil)
    => Removed(container.ID, TRUE) /\ ~Exists(container.ID)

C8_InspectFailureKeepsHandle ==
    (/\ pc = "afterRun"
     /\ \E i \in CallsOf("start") : calls[i].ok
     /\ \E i \in CallsOf("inspect") : ~calls[i].ok)
    => err = NoError /\ ~c.isNil /\ c.ID = containerID

\* Kill has returned after a listing that went through
KillListed == pc = "returned" /\ op.fn = "Kill" /\ \E i \in CallsOf("list") : calls[i].ok

\* the containers that listing matched
KillFound == calls[CHOOSE i \in CallsOf("list") : TRUE].found

\* C9 as claimed: zero or several matches give an error and no kill and no
\* remove; one match is killed, removed iff removeContainer, and its volumes
\* destroyed iff destroyData as well.
C9_KillAsClaimed ==
    KillListed
    => IF Cardinality(KillFound) # 1
       THEN result.err # NoError /\ CallsOf("kill") = {} /\ CallsOf("remove") = {}
       ELSE /\ \E i \in CallsOf("kill") : calls[i].id \in KillFound
            /\ (CallsOf("remove") # {}) <=> op.removeContainer
            /\ (\E i \in CallsOf("remove") : calls[i].volumes)
                  <=> (op.removeContainer /\ op.destroyData)

\* C9: Kill issues a kill or a remove only after its listing returned exactly
\* one running container; it then issues one kill, for that container.  When
\* the kill succeeds the container is force-removed iff removeContainer, with
\* its volumes iff destroyData as well; when the kill fails Kill returns the
\* error and removes nothing.
C9_Kill ==
    (pc = "returned" /\ op.fn = "Kill")
    => IF ~KillListed \/ Cardinality(KillFound) # 1
       THEN result.err # NoError /\ CallsOf("kill") = {} /\ CallsOf("remove") = {}
       ELSE /\ Cardinality(CallsOf("kill")) = 1
            /\ \A i \in CallsOf("kill") : calls[i].id \in KillFound
            /\ \A i \in CallsOf("remove") : calls[i].id \in KillFound /\ calls[i].force
            /\ IF \E i \in CallsOf("kill") : calls[i].ok
               THEN /\ (CallsOf("remove") # {}) <=> op.removeContainer
                    /\ (\E i \in CallsOf("remove") : calls[i].volumes)
                          <=> (op.removeContainer /\ op.destroyData)
               ELSE result.err # NoError /\ CallsOf("remove") = {}

\* the one container matched was killed and removed with its volumes
C9_Witness ==
    /\ KillListed /\ Cardinality(KillFound) = 1
    /\ \E i \in CallsOf("kill") : calls[i].ok
    /\ \E i \in CallsOf("remove") : calls[i].ok /\ calls[i].volumes

\* run has returned after CreateContainer failed
CreateFailed == pc = "afterRun" /\ \E i \in CallsOf("create") : ~calls[i].ok

\* the containers, running or not, that carry exactly the name given to run
Namesakes == {id \in DOMAIN containers : Slash(op.name) \in containers[id].Names}

\* C10 as claimed: after a creation failure, without restart run returns the
\* error with no lookup and no start; with restart it starts an existing
\* container iff exactly one container has exactly the name.
C10_RecoveryAsClaimed ==
    CreateFailed
    => IF ~op.restart
       THEN err # NoError /\ CallsOf("list") = {} /\ CallsOf("start") = {}
       ELSE /\ (CallsOf("start") # {}) <=> Cardinality(Namesakes) = 1
            /\ \A i \in CallsOf("start") : calls[i].id \in Namesakes
            /\ Cardinality(Namesakes) # 1 => err # NoError

\* C10: after a creation failure, without restart run returns the error with
\* no lookup and no start; with restart it starts an existing container iff
\* its listing went through and exactly one container, running or not, has
\* exactly the name; otherwise it returns an error and starts nothing.
C10_Recovery ==
    CreateFailed
    => IF ~op.restart
       THEN err # NoError /\ CallsOf("list") = {} /\ CallsOf("start") = {}
       ELSE /\ (CallsOf("start") # {})
                  <=> ((\E i \in CallsOf("list") : calls[i].ok) /\ Cardinality(Namesakes) = 1)
            /\ \A i \in CallsOf("start") : calls[i].id \in Namesakes
            /\ CallsOf("start") = {} => err # NoError

\* a stopped container was found by its name and started again
C10_Witness ==
    /\ CreateFailed /\ op.restart /\ err = NoError
    /\ \E i \in CallsOf("start") : calls[i].ok /\ calls[i].id \in Namesakes

\* the image pull of the running call failed
PullFailed == \E i \in CallsOf("pull") : ~calls[i].ok

\* C11: when the image pull fails, run returns an error and no handle, and
\* so does the RunDaemonized or RunLambda that called it; no create, start
\* or inspect call is issued, so that run creates no container.
C11_PullFailureIsFatal ==
    PullFailed
    => /\ CallsOf("create") = {} /\ CallsOf("start") = {} /\ CallsOf("inspect") = {}
       /\ container.isNil
       /\ pc \in {"afterRun", "returned"}
       /\ pc = "afterRun" => err # NoError /\ c.isNil
       /\ pc = "returned" => result.err # NoError /\ result.c.isNil

\* the caller of run has returned the error of the failed pull
C11_Witness ==
    /\ PullFailed /\ pc = "returned" /\ result.err = "pull"
    /\ op.fn \in {"RunDaemonized", "RunLambda"}

C20_UsedNeverDecreases ==
    [][\A i \in Ids :
         (HasBucket(db, i) /\ HasBucket(db', i)) => Usd(db', i) >= Usd(db, i)]_vars

----------------------------------------------------------------------------
(* Staging properties *)

\* C12: once LoadFiles has returned, with nil or with the error of a failed
\* literal write, no fetch goroutine it started is still pending.
C12_LoadFilesJoinsFetches ==
    staged # "no" => \A n \in FileNames : fetch[n] \in FetchEnded

\* the fetch of some entry failed
SomeFetchFailed ==
    \E n \in FileNames : fetch[n] \in {"panicked", "writeEmpty", "doneEmpty"}

\* C13: a failed fetch of one entry does not abort LoadFiles: the process
\* goes on, and when LoadFiles returns nil every literal entry and every
\* entry fetched and written without error is on disk.
C13_FetchFailureTolerated ==
    SomeFetchFailed
    => /\ pc # "crashed"
       /\ staged = "nil"
            => \A n \in FileNames :
                 /\ op.files[n] = "literal" => disk[n] = "literal"
                 /\ fetch[n] = "done" => disk[n] = "fetched"

\* every entry of the input set is written, or its fetch goroutine has ended
Resolved ==
    \A n \in FileNames :
        /\ op.files[n] = "literal" => disk[n] = "literal"
        /\ op.files[n] = "url" => fetch[n] \in FetchEnded \ {"none"}

\* C14: RunDaemonized issues a create or a start call only after LoadFiles
\* returned nil with every entry of the input set resolved; when LoadFiles
\* returns an error RunDaemonized issues no runtime call and creates no
\* container.
C14_StagedBeforeCreate ==
    op.fn = "RunDaemonized"
    => /\ (CallsOf("create") # {} \/ CallsOf("start") # {})
            => staged = "nil" /\ todo = {} /\ Resolved
       /\ staged # "nil" => calls = <<>> /\ container.isNil

\* a container was created after a literal entry was written and a fetch
\* had ended
C14_Witness ==
    /\ op.fn = "RunDaemonized"
    /\ \E i \in CallsOf("create") : calls[i].ok
    /\ \E n, m \in FileNames : op.files[n] = "literal" /\ op.files[m] = "url"

\* C17: the binds RunDaemonized has run pass to CreateContainer hold one for
\* the host directory at /<name> and one for it at /minion.
C17_MountedAtBothPaths ==
    (op.fn = "RunDaemonized" /\ CallsOf("create") # {})
    => /\ Bind(HostDir(op.name), Slash(op.name)) \in binds
       /\ Bind(HostDir(op.name), Minion) \in binds

----------------------------------------------------------------------------
(* RunLambda: wait and output *)

\* the container RunLambda waits for is not running (any more)
LambdaStopped == ~Exists(c.ID) \/ containers[c.ID].State # "running"

\* C18: RunLambda returns the captured output only after its wait saw the
\* container stopped; a wait that returns an error (the context was
\* cancelled, the request failed) makes it return that error with no output
\* and no Logs call; and a RunLambda that waits returns once the container
\* has stopped or the context is cancelled.
C18_LambdaWaitsOrGivesUp ==
    /\ [](op.fn = "RunLambda" /\ captured
            => /\ LambdaStopped
               /\ \A i \in CallsOf("wait") : calls[i].ok)
    /\ [](op.fn = "RunLambda" /\ (\E i \in CallsOf("wait") : ~calls[i].ok)
            => /\ ~captured /\ CallsOf("logs") = {}
               /\ result.err # NoError)
    /\ [](op.fn = "RunLambda" /\ pc = "returned" /\ result.err = NoError => captured)
    /\ (op.fn = "RunLambda" /\ pc = "wait" /\ (LambdaStopped \/ cancelled))
          ~> (pc = "returned")

\* the context was cancelled while the container ran, the wait returned an
\* error, and RunLambda is on its way out with that error and no output
C18_Witness ==
    /\ op.fn = "RunLambda" /\ pc = "cleanup" /\ cancelled /\ ~captured
    /\ \E i \in CallsOf("wait") : ~calls[i].ok
    /\ Exists(c.ID) /\ containers[c.ID].State = "running"

----------------------------------------------------------------------------
(* Output streaming properties *)

Range(seq) == {seq[i] : i \in DOMAIN seq}

\* C15: with both output channels given to RunDaemonized, every byte the
\* container writes to stdout or stderr is eventually sent on the channel of
\* that stream.
C15_StreamsContinuously ==
    \A d \in Streams : \A k \in 1..MaxBytes :
        (op.fn = "RunDaemonized" /\ op.streams /\ output[d] >= k)
          ~> (k \in Range(sent[d]))

\* C16: whenever a pump of Attach is between two rounds of its loop, or has
\* ended, the chunks it sent, concatenated, are the bytes its Reads
\* returned, in that order.
C16_ForwardsExactlyWhatWasRead ==
    op.fn = "Attach"
    => \A d \in Streams : pump[d] \in {"read", "done"} => sent[d] = got[d]

----------------------------------------------------------------------------
(* Ledger errors *)

\* C21: a RecordMilliseconds on an identity with no entry returns an error
\* and leaves the store as it was, with no entry for that identity; that
\* error is not the one returned for an entry with remaining <= 0.
C21_NoEntryErrorDistinct ==
    [][\A p \in Procs :
         RecordReturns(p)
         => /\ ~HasBucket(db, call[p].id)
                 => /\ ret[p].err \notin {NoError, ErrNoTimeLeft}
                    /\ db' = db
            /\ (HasBucket(db, call[p].id) /\ Rem(db, call[p].id) <= 0)
                 => /\ ret[p].err = ErrNoTimeLeft
                    /\ ret[p].err # ErrNoBucket]_vars

\* one debit has returned the error of the missing entry, another the
\* out-of-credit error
C21_Witness ==
    \E p, q \in Procs :
        /\ mpc[p] = "idle" /\ call[p].op = "RecordMilliseconds"
        /\ ~HasBucket(db, call[p].id) /\ ret[p].err = ErrNoBucket
        /\ Recorded(q, call[q].id) /\ HasBucket(db, call[q].id)
        /\ ret[q].err = ErrNoTimeLeft

----------------------------------------------------------------------------
(* Order of the calls of run *)

\* call number i of the log is a successful call of the given kind
OkCall(i, name) == i \in CallsOf(name) /\ calls[i].ok

\* the container id run resolved before call number j: the one a successful
\* create returned, or the single one its lookup by name found
ResolvedBefore(j) ==
    {calls[i].id : i \in {k \in CallsOf("create") : k < j /\ calls[k].ok}}
    \cup UNION {calls[i].found : i \in {k \in CallsOf("list") :
                                           k < j /\ calls[k].ok
                                           /\ Cardinality(calls[k].found) = 1}}

\* C22: in a run, pull, create, the lookup by name, start and inspect are
\* each issued at most once and in that order; create only after a
\* successful pull, the lookup only after a failed create with restart set,
\* start only on a container id resolved by a successful create or by the
\* lookup, inspect only after a successful start on the same id.
C22_RunOrder ==
    op.fn \in {"RunDaemonized", "RunLambda"}
    => /\ \A name \in {"pull", "create", "list", "start", "inspect"} :
            Cardinality(CallsOf(name)) <= 1
       /\ \A j \in CallsOf("create") : \E i \in 1..(j - 1) : OkCall(i, "pull")
       /\ \A j \in CallsOf("list") :
            op.restart /\ \E i \in 1..(j - 1) : i \in CallsOf("create") /\ ~calls[i].ok
       /\ \A j \in CallsOf("start") :
            /\ \E i \in 1..(j - 1) : OkCall(i, "pull")
            /\ ResolvedBefore(j) = {calls[j].id}
       /\ \A j \in CallsOf("inspect") :
            \E i \in 1..(j - 1) : OkCall(i, "start") /\ calls[i].id = calls[j].id

\* a run has gone through pull, a failed create, the lookup, start and
\* inspect
C22_Witness ==
    /\ op.fn = "RunDaemonized" /\ pc = "afterRun"
    /\ \E i \in CallsOf("create") : ~calls[i].ok
    /\ \E i \in CallsOf("list") : calls[i].ok
    /\ \E i \in CallsOf("start") : calls[i].ok
    /\ \E i \in CallsOf("inspect") : calls[i].ok

----------------------------------------------------------------------------
(* The monitor of a daemonized container *)

\* the monitor's container is there and running
MonitoredRunning == Exists(c.ID) /\ containers[c.ID].State = "running"

\* C23: a monitor exists only for a RunDaemonized that was given a done
\* channel; it leaves its polling loop only on an inspect that failed or on
\* a container that is not running; while it polls it has sent nothing and
\* removed nothing; a signal is sent and a remove issued only by a monitor
\* that has left the loop; and it sends at most one signal.
C23_MonitorQuietWhileRunning ==
    /\ [](mon # "off" => op.fn = "RunDaemonized" /\ op.done)
    /\ [](signals <= 1)
    /\ [](mon = "poll" => signals = 0 /\ CallsOf("remove") = {})
    /\ [][/\ (mon = "poll" /\ mon' = "send")
              => (~calls'[Len(calls')].ok \/ ~MonitoredRunning)
          /\ signals' > signals => mon = "send"
          /\ (/\ op.fn = "RunDaemonized"
              /\ Len(calls') > Len(calls)
              /\ calls'[Len(calls')].op = "remove")
              => mon = "cleanup"]_vars

\* RunDaemonized has returned and its monitor polls a running container,
\* having sent and removed nothing
C23_Witness ==
    /\ op.fn = "RunDaemonized" /\ op.done /\ pc = "returned"
    /\ mon = "poll" /\ MonitoredRunning
    /\ signals = 0 /\ CallsOf("remove") = {}

----------------------------------------------------------------------------
(* The pumps of Attach after an error *)

\* C24: an output pump of Attach whose stream has ended (its next Read
\* returns an error) eventually closes the attachment and ends; the stdin
\* pump whose Write fails closes the attachment and ends; and a pump that
\* has ended reads, sends and writes nothing more.
C24_PumpsStopAfterError ==
    /\ \A d \in Streams :
         (op.fn = "Attach" /\ pump[d] \in {"read", "send"}
            /\ pipe[d].closed /\ pipe[d].buf = <<>>)
           ~> (pump[d] = "done" /\ cw = "closed")
    /\ (op.fn = "Attach" /\ inpump = "write" /\ stdinClosed)
           ~> (inpump = "done" /\ cw = "closed")
    /\ [][runs' = runs
            => /\ \A d \in Streams :
                    (pump[d] = "send" /\ data[d].err) => pump'[d] \in {"send", "done"}
               /\ \A d \in Streams :
                    pump[d] = "done"
                    => pump'[d] = "done" /\ got'[d] = got[d] /\ sent'[d] = sent[d]
               /\ inpump = "done" => inpump' = "done" /\ received' = received]_vars

\* the stdout pump has ended after the end of its stream and the stdin pump
\* after a failed Write, the attachment closed
C24_Witness ==
    /\ op.fn = "Attach" /\ cw = "closed"
    /\ pump["stdout"] = "done" /\ data["stdout"].err
    /\ inpump = "done" /\ stdinClosed /\ received > 0

\* C25: a RunDaemonized given both output channels that has started its
\* container and reached the log request eventually returns.
C25_DaemonWithStreamsReturns ==
    (op.fn = "RunDaemonized" /\ op.streams /\ pc = "logs") ~> (pc = "returned")

====
